---------------------------- MODULE Spec2Model ----------------------------
(***************************************************************************)
(* CSV analyzer: the column profiler of src/server.js (POST /analyze) and  *)
(* the front end of src/public/app.js (client-side fallback profiler and   *)
(* the Analyze button).                                                    *)
(*                                                                         *)
(* Numbers are integers; every comparison the code makes on quotients      *)
(* (mean, standard deviation, bucket size, the 1.5*iqr fences, 0.8*n) is   *)
(* made here on the cross-multiplied integers, i.e. in exact arithmetic.   *)
(***************************************************************************)
EXTENDS Integers, Sequences, FiniteSets

VARIABLES
    rows,               \* req.body.rows of a request / the rows handed to clientAnalyze
    lenientDates,       \* whether the engine's Date.parse accepts bare numerals
    call,               \* the function applied last
    ret,                \* what it returned
    numericValues,      \* buildHistogram's first argument
    buckets,            \* buildHistogram's second argument
    parsedData,         \* app.js: let parsedData
    analyzeBtnDisabled, \* app.js: analyzeBtn.disabled
    handlers,           \* click handlers suspended at an await
    clicks,             \* number of analyses started so far
    lastResult          \* app.js: let lastResult (with the analysis it came from)

vars == <<rows, lenientDates, call, ret, numericValues, buckets,
          parsedData, analyzeBtnDisabled, handlers, clicks, lastResult>>

---------------------------------------------------------------------------
(* Bounds of the model                                                     *)

MaxWide == 2        \* rows of a two-column dataset
MaxLong == 6        \* rows of a one-column dataset
MaxRun == 11        \* length of one run of equal rows in a bulk dataset
MaxVals == 4        \* length of a sequence handed to buildHistogram directly
MaxBuckets == 3     \* bucket counts handed to buildHistogram directly
MaxClicks == 2      \* analyses started in one behaviour of the front end

---------------------------------------------------------------------------
(* Raw JavaScript values                                                   *)

Null == [t |-> "null", n |-> 0, s |-> ""]
Undefined == [t |-> "undefined", n |-> 0, s |-> ""]
Num(k) == [t |-> "number", n |-> k, s |-> ""]
Str(x) == [t |-> "string", n |-> 0, s |-> x]

\* The result of Number(v): NaN or an integer.
NaN == [nan |-> TRUE, n |-> 0]
Finite(k) == [nan |-> FALSE, n |-> k]

\* Number() of a string: blank strings are 0, numerals their value, the rest NaN.
StringToNumber(s) ==
    CASE s = "" -> Finite(0)
      [] s = " " -> Finite(0)
      [] s = "7" -> Finite(7)
      [] OTHER -> NaN

ToNumber(v) ==
    CASE v.t = "number" -> Finite(v.n)
      [] v.t = "null" -> Finite(0)
      [] v.t = "undefined" -> NaN
      [] v.t = "string" -> StringToNumber(v.s)

isNumber(x) == ~x.nan

\* String(v), the argument Date.parse really sees.
JsString(v) ==
    CASE v.t = "string" -> v.s
      [] v.t = "null" -> "null"
      [] v.t = "undefined" -> "undefined"
      [] v.t = "number" -> "numeral"

\* !isNaN(Date.parse(v)): ISO dates parse everywhere; a bare numeral ("7", 5)
\* parses or not depending on the engine's legacy parser.
DateParses(v, lenient) ==
    LET str == JsString(v) IN
    \/ str = "2020-01-01"
    \/ lenient /\ (str = "numeral" \/ str = "7")

\* v !== null && v !== undefined
NotNullish(v) == v # Null /\ v # Undefined

\* v !== null && v !== undefined && v !== ""
NotMissing(v) == v # Null /\ v # Undefined /\ v # Str("")

---------------------------------------------------------------------------
(* Records and row sequences                                               *)

ColOrder == <<"a", "b">>

\* A row is an object (its own keys and their values) or null.
Obj(f) == [obj |-> TRUE, f |-> f]
NullRow == [obj |-> FALSE, f |-> <<>>]

\* r[col]
Get(r, col) == IF col \in DOMAIN r.f THEN r.f[col] ELSE Undefined

\* Object.keys(r), in insertion order
Keys(r) == SelectSeq(ColOrder, LAMBDA c : c \in DOMAIN r.f)

\* req.body.rows: an array, or some other JSON value, or absent
Array(items) == [kind |-> "array", items |-> items, v |-> Null]
NotArray(v) == [kind |-> "value", items |-> <<>>, v |-> v]
JsonObject == [kind |-> "object", items |-> <<>>, v |-> Null]

\* !rows
Falsy(r) ==
    /\ r.kind = "value"
    /\ \/ r.v.t \in {"null", "undefined"}
       \/ r.v = Str("")
       \/ r.v = Num(0)

---------------------------------------------------------------------------
(* Sequence helpers                                                        *)

RECURSIVE SumSeq(_)
SumSeq(s) == IF s = <<>> THEN 0 ELSE Head(s) + SumSeq(Tail(s))

RECURSIVE Insert(_, _)
Insert(x, s) ==
    IF s = <<>> THEN <<x>>
    ELSE IF x < Head(s) THEN <<x>> \o s
    ELSE <<Head(s)>> \o Insert(x, Tail(s))

\* the sort left out
Unsorted(s) == s

\* numeric.slice().sort((a,b)=>a-b): stable, ascending
RECURSIVE SortNumeric(_)
SortNumeric(s) ==
    IF s = <<>> THEN <<>>
    ELSE Insert(s[Len(s)], SortNumeric(SubSeq(s, 1, Len(s) - 1)))

\* s[i] with JavaScript's zero-based index
At(s, i) == s[i + 1]

---------------------------------------------------------------------------
(* server.js: inferColumnTypes                                             *)

\* rows.map(r => r[col])
Column(items, col) == [i \in 1..Len(items) |-> Get(items[i], col)]

\* .filter(v => v !== null && v !== undefined && v !== "")
NonMissing(raw) == SelectSeq(raw, NotMissing)

\* numCount >= vals.length * 0.8
MostlyNumericInclusive(numCount, len) == 5 * numCount >= 4 * len

\* numCount > vals.length * 0.8
MostlyNumeric(numCount, len) == 5 * numCount > 4 * len

\* the type of one column, from its counts
Classify(numCount, dateCount, len) ==
    IF numCount = len THEN "numeric"
    ELSE IF dateCount = len THEN "date"
    ELSE IF MostlyNumeric(numCount, len) THEN "numeric"
    ELSE "categorical"

inferColumnType(items, col, lenient) ==
    LET vals == NonMissing(Column(items, col))
        numCount == Len(SelectSeq(vals, LAMBDA v : isNumber(ToNumber(v))))
        dateCount == Len(SelectSeq(vals, LAMBDA v : DateParses(v, lenient)))
    IN Classify(numCount, dateCount, Len(vals))

inferColumnTypes(items, lenient) ==
    LET cols == Keys(items[1]) IN
    [c \in {cols[i] : i \in 1..Len(cols)} |-> inferColumnType(items, c, lenient)]

---------------------------------------------------------------------------
(* server.js: computeStatistics                                            *)

\* values.map(v => Number(v)).filter(v => isNumber(v))
NumericOf(values) ==
    LET nums == [i \in 1..Len(values) |-> ToNumber(values[i])]
        kept == SelectSeq(nums, isNumber)
    IN [i \in 1..Len(kept) |-> kept[i].n]

\* Array.from(new Set(values)).length
UniqueCount(values) == Cardinality({values[i] : i \in 1..Len(values)})

\* x || 0
OrZero(x) == IF x = 0 THEN 0 ELSE x

Q1Index(n) == n \div 4
Q3Index(n) == (n * 3) \div 4
MedianIndex(n) == n \div 2

\* v < lower || v > upper, with lower = q1 - 1.5*iqr and upper = q3 + 1.5*iqr
OutsideFences(v, q1, q3, iqr) ==
    \/ 2 * v < 2 * q1 - 3 * iqr
    \/ 2 * v > 2 * q3 + 3 * iqr

\* n^3 times the population variance: sum of (n*v - sum)^2
ScaledDeviation(numeric) ==
    LET n == Len(numeric)
        sum == SumSeq(numeric)
    IN SumSeq([i \in 1..n |-> (n * numeric[i] - sum) * (n * numeric[i] - sum)])

\* sd ? numeric.filter(v => Math.abs((v-mean)/sd) > 3) : []
OutliersZ(numeric) ==
    LET n == Len(numeric)
        sum == SumSeq(numeric)
        dev == ScaledDeviation(numeric)
    IN IF dev = 0 THEN <<>>
       ELSE SelectSeq(numeric,
                LAMBDA v : n * (n * v - sum) * (n * v - sum) > 9 * dev)

\* the fields of a column with at least one numeric value
NumericStatistics(base, numeric, q1, q3) ==
    LET sorted == SortNumeric(numeric)
        n == Len(sorted)
        iqr == OrZero(q3 - q1)
    IN [count |-> base.count, missing |-> base.missing, unique |-> base.unique,
        isNumeric |-> TRUE,
        mean |-> [num |-> SumSeq(numeric), den |-> n],
        min |-> At(sorted, 0), max |-> At(sorted, n - 1),
        median |-> At(sorted, MedianIndex(n)),
        q1 |-> q1, q3 |-> q3, iqr |-> iqr,
        outliers_iqr |-> SelectSeq(numeric, LAMBDA v : OutsideFences(v, q1, q3, iqr)),
        outliers_z |-> OutliersZ(numeric)]

BaseStatistics(items, col) ==
    LET values == NonMissing(Column(items, col)) IN
    [count |-> Len(items), missing |-> Len(items) - Len(values),
     unique |-> UniqueCount(values), isNumeric |-> FALSE]

columnStatistics(items, col) ==
    LET numeric == NumericOf(NonMissing(Column(items, col)))
        sorted == SortNumeric(numeric)
        base == BaseStatistics(items, col)
    IN IF Len(numeric) # 0
       THEN NumericStatistics(base, numeric,
                At(sorted, Q1Index(Len(sorted))), At(sorted, Q3Index(Len(sorted))))
       ELSE base

computeStatistics(items) ==
    IF Len(items) = 0 THEN <<>>
    ELSE LET cols == Keys(items[1]) IN
         [c \in {cols[i] : i \in 1..Len(cols)} |-> columnStatistics(items, c)]

---------------------------------------------------------------------------
(* server.js: buildHistogram                                               *)

HistBuckets == 12

\* the null buildHistogram returns for no data
NoHistogram == [nodata |-> TRUE]

\* max - min || 1
HistRangeUnguarded(min, max) == max - min
HistRange(min, max) == IF max - min = 0 THEN 1 ELSE max - min

\* if (idx<0) idx=0; if (idx>=buckets) idx=buckets-1;
ClampLowOnly(idx, b) == IF idx < 0 THEN 0 ELSE idx
Clamp(idx, b) == IF idx < 0 THEN 0 ELSE IF idx >= b THEN b - 1 ELSE idx

\* Math.floor((v - min) / bucketSize), bucketSize = range / buckets; with a
\* zero range the quotient is 0/0 = NaN, which is no index: -1 stands for it.
BucketIndex(v, min, range, b) ==
    IF range = 0 THEN -1 ELSE Clamp(((v - min) * b) \div range, b)

\* labels[i] spans start..end; both are kept as numerators over `buckets`
BucketLabel(i, min, max, range, b) ==
    [start |-> min * b + i * range,
     end |-> IF i = b - 1 THEN max * b ELSE min * b + (i + 1) * range]

Histogram(values, b) ==
    LET sorted == SortNumeric(values)
        min == At(sorted, 0)
        max == At(sorted, Len(sorted) - 1)
        range == HistRange(min, max)
    IN [labels |-> [i \in 1..b |-> BucketLabel(i - 1, min, max, range, b)],
        counts |-> [i \in 1..b |->
            Cardinality({k \in 1..Len(values) :
                            BucketIndex(values[k], min, range, b) = i - 1})]]

\* numericValues is an array, or absent
buildHistogram(values, b) ==
    IF values.kind # "array" \/ Len(values.items) = 0 THEN NoHistogram
    ELSE Histogram(values.items, b)

---------------------------------------------------------------------------
(* server.js: app.post("/analyze")                                         *)

BadRequest == [status |-> 400, error |-> "Invalid rows"]
Failure == [status |-> 500, error |-> "Analysis failed"]

NoChart == [none |-> TRUE]

\* !rows || !Array.isArray(rows)
InvalidRowsNoLength(r) == Falsy(r) \/ r.kind # "array"

\* !rows || !Array.isArray(rows) || rows.length === 0
InvalidRows(r) == Falsy(r) \/ r.kind # "array" \/ Len(r.items) = 0

\* A TypeError in the profiling of an array: Object.keys(rows[0]) of a missing or
\* null first row, or r[col] of a null row while some column is iterated.
ThrowsTypeError(items) ==
    \/ Len(items) = 0
    \/ ~items[1].obj
    \/ Keys(items[1]) # <<>> /\ \E i \in 1..Len(items) : ~items[i].obj

\* rows.map(r => Number(r[col])).filter(v => isNumber(v))
CoercedColumn(items, col) ==
    LET nums == [i \in 1..Len(items) |-> ToNumber(Get(items[i], col))]
        kept == SelectSeq(nums, isNumber)
    IN [i \in 1..Len(kept) |-> kept[i].n]

\* one insight string, kept as its parts
MissingInsight(col, n) == [kind |-> "missing", col |-> col, n |-> n]
OutlierInsight(col, n) == [kind |-> "outlier", col |-> col, n |-> n]

\* s.isNumeric && (s.outliers_iqr.length || s.outliers_z.length)
HasOutlierInsight(s) ==
    s.isNumeric /\ (Len(s.outliers_iqr) # 0 \/ Len(s.outliers_z) # 0)

RECURSIVE Insights(_, _)
Insights(cols, statistics) ==
    IF cols = <<>> THEN <<>>
    ELSE LET col == Head(cols)
             s == statistics[col]
         IN (IF s.missing > 0 THEN <<MissingInsight(col, s.missing)>> ELSE <<>>)
            \o (IF HasOutlierInsight(s)
                THEN <<OutlierInsight(col, Len(s.outliers_iqr))>> ELSE <<>>)
            \o Insights(Tail(cols), statistics)

\* the histogram of the first numeric column, or null
ChartData(items, statistics) ==
    LET cols == Keys(items[1])
        numericCols == SelectSeq(cols, LAMBDA c : statistics[c].isNumeric)
    IN IF numericCols = <<>> THEN NoChart
       ELSE LET col == numericCols[1]
                hist == buildHistogram(Array(CoercedColumn(items, col)), HistBuckets)
            IN IF hist = NoHistogram THEN NoHistogram
               ELSE [none |-> FALSE, column |-> col,
                     labels |-> hist.labels, data |-> hist.counts]

Profile(items, lenient) ==
    LET statistics == computeStatistics(items)
        chartData == ChartData(items, statistics)
    IN IF chartData = NoHistogram THEN Failure    \* hist.labels of null
       ELSE [status |-> 200,
             summary |-> [rows |-> Len(items), cols |-> Len(Keys(items[1]))],
             types |-> inferColumnTypes(items, lenient),
             statistics |-> statistics,
             insights |-> Insights(Keys(items[1]), statistics),
             chartData |-> chartData]

analyze(r, lenient) ==
    IF InvalidRows(r) THEN BadRequest
    ELSE IF ThrowsTypeError(r.items) THEN Failure
    ELSE Profile(r.items, lenient)

---------------------------------------------------------------------------
(* app.js: clientAnalyze, buildHistogramFromClient                         *)

Threw == [threw |-> TRUE]

clientColumnType(items, col, lenient) ==
    LET vals == NonMissing(Column(items, col))
        numCount == Len(SelectSeq(vals, LAMBDA v : v.t = "number"))
        dateCount == Len(SelectSeq(vals, LAMBDA v : DateParses(v, lenient)))
    IN Classify(numCount, dateCount, Len(vals))

\* x || y
OrElse(x, y) == IF x = 0 THEN y ELSE x

clientColumnStatistics(items, col) ==
    LET numeric == NumericOf(NonMissing(Column(items, col)))
        sorted == SortNumeric(numeric)
        n == Len(sorted)
        base == BaseStatistics(items, col)
    IN IF n # 0
       THEN NumericStatistics(base, numeric,
                OrElse(At(sorted, Q1Index(n)), At(sorted, 0)),
                OrElse(At(sorted, Q3Index(n)), At(sorted, n - 1)))
       ELSE base

\* both pushes sit inside the branch of a column with numeric values
RECURSIVE clientInsights(_, _)
clientInsights(cols, statistics) ==
    IF cols = <<>> THEN <<>>
    ELSE LET col == Head(cols)
             s == statistics[col]
         IN (IF s.isNumeric /\ s.missing > 0
             THEN <<MissingInsight(col, s.missing)>> ELSE <<>>)
            \o (IF s.isNumeric /\ Len(s.outliers_iqr) # 0
                THEN <<OutlierInsight(col, Len(s.outliers_iqr))>> ELSE <<>>)
            \o clientInsights(Tail(cols), statistics)

\* buildHistogramFromClient(rows): the first column whose first value is a number
buildHistogramFromClient(items) ==
    LET numberCols == SelectSeq(Keys(items[1]),
                                LAMBDA c : Get(items[1], c).t = "number")
    IN IF numberCols = <<>> THEN NoChart
       ELSE LET col == numberCols[1]
                hist == Histogram(CoercedColumn(items, col), HistBuckets)
            IN [none |-> FALSE, column |-> col,
                labels |-> hist.labels, data |-> hist.counts]

clientAnalyze(items, lenient) ==
    IF ThrowsTypeError(items) THEN Threw
    ELSE LET cols == Keys(items[1])
             colSet == {cols[i] : i \in 1..Len(cols)}
             statistics == [c \in colSet |-> clientColumnStatistics(items, c)]
         IN [threw |-> FALSE,
             types |-> [c \in colSet |-> clientColumnType(items, c, lenient)],
             statistics |-> statistics,
             insights |-> clientInsights(cols, statistics),
             outliers |-> [c \in {c \in colSet : statistics[c].isNumeric} |->
                            [iqr |-> statistics[c].outliers_iqr,
                             z |-> statistics[c].outliers_z]],
             chartData |-> buildHistogramFromClient(items)]

---------------------------------------------------------------------------
(* Inputs                                                                  *)

SeqsUpTo(S, n) == UNION {[1..k -> S] : k \in 0..n}

RECURSIVE Repeat(_, _)
Repeat(x, k) == IF k = 0 THEN <<>> ELSE <<x>> \o Repeat(x, k - 1)

\* the object {a: va, b: vb}; Undefined stands for a key the object lacks
Record(va, vb) ==
    LET val == [c \in {"a", "b"} |-> IF c = "a" THEN va ELSE vb] IN
    Obj([c \in {c \in {"a", "b"} : val[c] # Undefined} |-> val[c]])

\* two-column datasets, every combination of a few rows; a row may be null
WideVals == {Undefined, Null, Num(3), Str("x")}
WideRecords == {Record(va, vb) : va \in WideVals, vb \in WideVals}
WideFiles == SeqsUpTo(WideRecords \cup {NullRow}, MaxWide)

\* one-column datasets, every order of the values of one group
ValueGroups ==
    { {Num(2), Str("2020-01-01"), Str("x")},
      {Num(-1), Num(0), Num(5)},
      {Null, Str(""), Num(5)},
      {Str("7"), Str(" "), Str("x")} }
LongFiles ==
    UNION {SeqsUpTo({Record(v, Undefined) : v \in g}, MaxLong) : g \in ValueGroups}

\* one-column datasets made of three runs of equal rows
BulkFiles ==
    {Repeat(Record(Num(2), Undefined), k[1])
        \o Repeat(Record(Num(5), Undefined), k[2])
        \o Repeat(Record(Num(0), Undefined), k[3]) : k \in [1..3 -> 0..MaxRun]}

\* req.body.rows of a request whose rows are no array
NonArrays ==
    {NotArray(Undefined), NotArray(Null), NotArray(Num(0)), NotArray(Str("abc")),
     JsonObject}

RequestRows ==
    NonArrays \cup {Array(f) : f \in WideFiles \cup LongFiles \cup BulkFiles}

\* what Papa.parse hands over: objects only
ParsedFiles == {f \in WideFiles : \A i \in 1..Len(f) : f[i].obj}

HistNums == {-1, 0, 2, 5}
HistInputs ==
    {NotArray(Undefined)} \cup {Array(s) : s \in SeqsUpTo(HistNums, MaxVals)}

NoCall == "none"
NoResult == [none |-> TRUE]

---------------------------------------------------------------------------
(* The profilers, applied to a request                                     *)

\* The front end after load: nothing parsed, nothing analysed. The button starts
\* disabled (handleFile is what enables it).
IdleFrontEnd ==
    /\ parsedData = NotArray(Null)
    /\ analyzeBtnDisabled = TRUE
    /\ handlers = <<>>
    /\ clicks = 0
    /\ lastResult = NoResult

Init ==
    /\ rows \in RequestRows
    /\ lenientDates \in BOOLEAN
    /\ call = NoCall
    /\ ret = NoResult
    /\ numericValues = NotArray(Undefined)
    /\ buckets = HistBuckets
    /\ IdleFrontEnd

\* POST /analyze with body {rows}
Post ==
    /\ call' = "analyze"
    /\ ret' = analyze(rows, lenientDates)
    /\ UNCHANGED <<rows, lenientDates, numericValues, buckets,
                   parsedData, analyzeBtnDisabled, handlers, clicks, lastResult>>

\* clientAnalyze(rows), which the front end calls with an array of objects
ClientAnalyze ==
    /\ rows.kind = "array"
    /\ \A i \in 1..Len(rows.items) : rows.items[i].obj
    /\ call' = "clientAnalyze"
    /\ ret' = clientAnalyze(rows.items, lenientDates)
    /\ UNCHANGED <<rows, lenientDates, numericValues, buckets,
                   parsedData, analyzeBtnDisabled, handlers, clicks, lastResult>>

Next == Post \/ ClientAnalyze

Spec == Init /\ [][Next]_vars

---------------------------------------------------------------------------
(* buildHistogram and computeStatistics, applied to a list of numbers      *)

InitHist ==
    /\ numericValues \in HistInputs
    /\ buckets \in 1..MaxBuckets
    /\ rows = NotArray(Undefined)
    /\ lenientDates = FALSE
    /\ call = NoCall
    /\ ret = NoResult
    /\ IdleFrontEnd

BuildHistogram ==
    /\ call' = "buildHistogram"
    /\ ret' = buildHistogram(numericValues, buckets)
    /\ UNCHANGED <<rows, lenientDates, numericValues, buckets,
                   parsedData, analyzeBtnDisabled, handlers, clicks, lastResult>>

\* the column a of the rows [{a: v}] for v in numericValues
ComputeStatistics ==
    /\ numericValues.kind = "array"
    /\ call' = "computeStatistics"
    /\ ret' = computeStatistics(
                [i \in 1..Len(numericValues.items) |->
                    Record(Num(numericValues.items[i]), Undefined)])
    /\ UNCHANGED <<rows, lenientDates, numericValues, buckets,
                   parsedData, analyzeBtnDisabled, handlers, clicks, lastResult>>

NextHist == BuildHistogram \/ ComputeStatistics

SpecHist == InitHist /\ [][NextHist]_vars

---------------------------------------------------------------------------
(* app.js: the Analyze button                                              *)

\* JSON.parse(JSON.stringify(rows)): a key whose value is undefined is dropped
JsonRow(r) ==
    IF ~r.obj THEN r
    ELSE Obj([c \in {c \in DOMAIN r.f : r.f[c] # Undefined} |-> r.f[c]])
JsonRows(items) == [i \in 1..Len(items) |-> JsonRow(items[i])]

InitFrontEnd ==
    /\ rows \in {Array(f) : f \in ParsedFiles}
    /\ lenientDates \in BOOLEAN
    /\ call = NoCall
    /\ ret = NoResult
    /\ numericValues = NotArray(Undefined)
    /\ buckets = HistBuckets
    /\ IdleFrontEnd

\* Papa.parse's complete callback
HandleFile ==
    /\ parsedData' = rows
    /\ analyzeBtnDisabled' = FALSE
    /\ UNCHANGED <<rows, lenientDates, call, ret, numericValues, buckets,
                   handlers, clicks, lastResult>>

\* The click handler up to its await. analyzeRows is entered and the request
\* leaves here; what the backend would answer to it and what the fallback
\* would return are functions of the rows sent, and are kept with the
\* suspended handler.
ClickAnalyze ==
    /\ ~analyzeBtnDisabled
    /\ clicks < MaxClicks
    /\ parsedData.kind = "array"      \* if (!parsedData) return alert(...)
    /\ analyzeBtnDisabled' = TRUE
    /\ clicks' = clicks + 1
    /\ handlers' = Append(handlers,
            [id |-> clicks + 1, pc |-> "fetch",
             answer |-> analyze(Array(JsonRows(parsedData.items)), lenientDates),
             fallback |-> clientAnalyze(parsedData.items, lenientDates),
             result |-> NoResult])
    /\ UNCHANGED <<rows, lenientDates, call, ret, numericValues, buckets,
                   parsedData, lastResult>>

\* the catch block of analyzeRows: the promise settles with clientAnalyze's
\* result, or rejects with what clientAnalyze threw
Fallback(h) ==
    IF h.fallback = Threw THEN [h EXCEPT !.pc = "rejected"]
    ELSE [h EXCEPT !.pc = "resolved", !.result = h.fallback]

\* the backend answers the fetch: its json if resp.ok, the fallback if not
FetchResponds(i) ==
    /\ i \in 1..Len(handlers)
    /\ handlers[i].pc = "fetch"
    /\ handlers' = [handlers EXCEPT ![i] =
            IF handlers[i].answer.status = 200
            THEN [handlers[i] EXCEPT !.pc = "resolved",
                                     !.result = handlers[i].answer]
            ELSE Fallback(handlers[i])]
    /\ UNCHANGED <<rows, lenientDates, call, ret, numericValues, buckets,
                   parsedData, analyzeBtnDisabled, clicks, lastResult>>

\* the backend is not running: fetch rejects
FetchFails(i) ==
    /\ i \in 1..Len(handlers)
    /\ handlers[i].pc = "fetch"
    /\ handlers' = [handlers EXCEPT ![i] = Fallback(handlers[i])]
    /\ UNCHANGED <<rows, lenientDates, call, ret, numericValues, buckets,
                   parsedData, analyzeBtnDisabled, clicks, lastResult>>

Without(s, i) == SubSeq(s, 1, i - 1) \o SubSeq(s, i + 1, Len(s))

\* the click handler after its await: lastResult, renderResult, re-enable
Resume(i) ==
    /\ i \in 1..Len(handlers)
    /\ handlers[i].pc = "resolved"
    /\ lastResult' = [none |-> FALSE, id |-> handlers[i].id,
                      result |-> handlers[i].result]
    /\ analyzeBtnDisabled' = FALSE
    /\ handlers' = Without(handlers, i)
    /\ UNCHANGED <<rows, lenientDates, call, ret, numericValues, buckets,
                   parsedData, clicks>>

\* the await throws: the handler ends there, with an unhandled rejection
Abort(i) ==
    /\ i \in 1..Len(handlers)
    /\ handlers[i].pc = "rejected"
    /\ handlers' = Without(handlers, i)
    /\ UNCHANGED <<rows, lenientDates, call, ret, numericValues, buckets,
                   parsedData, analyzeBtnDisabled, clicks, lastResult>>

FetchSettles == \E i \in 1..MaxClicks : FetchResponds(i) \/ FetchFails(i)
HandlerContinues == \E i \in 1..MaxClicks : Resume(i) \/ Abort(i)

NextFrontEnd == HandleFile \/ ClickAnalyze \/ FetchSettles \/ HandlerContinues

\* a fetch settles and a settled promise's continuation runs; the user owes nothing
FairSpec ==
    /\ InitFrontEnd
    /\ [][NextFrontEnd]_vars
    /\ WF_vars(FetchSettles)
    /\ WF_vars(HandlerContinues)

---------------------------------------------------------------------------
(* Vocabulary of the properties                                            *)

\* the server profiled the rows and answered 200
ServerProfiled == call = "analyze" /\ ret.status = 200

\* the client-side profiler returned a result
ClientProfiled == call = "clientAnalyze" /\ ret # Threw

\* the indices of the records whose value for col is null, absent or ""
MissingAt(items, col) ==
    {i \in 1..Len(items) : Get(items[i], col) \in {Null, Undefined, Str("")}}

\* the indices of the records whose value for col is present and coerces to a number
NumericAt(items, col) ==
    {i \in 1..Len(items) \ MissingAt(items, col) :
        ~ToNumber(Get(items[i], col)).nan}

\* the indices of the records whose value for col is present and parses as a date
DateAt(items, col) ==
    {i \in 1..Len(items) \ MissingAt(items, col) :
        DateParses(Get(items[i], col), lenientDates)}

\* the k-th smallest (from 0) of a list of numbers
Kth(numeric, k) ==
    CHOOSE x \in {numeric[i] : i \in 1..Len(numeric)} :
        /\ Cardinality({i \in 1..Len(numeric) : numeric[i] < x}) <= k
        /\ Cardinality({i \in 1..Len(numeric) : numeric[i] <= x}) > k

ColumnNumbers(items, col) ==
    LET at == NumericAt(items, col)
        pick == SelectSeq([i \in 1..Len(items) |-> i], LAMBDA i : i \in at)
    IN [j \in 1..Len(pick) |-> ToNumber(Get(items[pick[j]], col)).n]

InsightCols(insights, kind) ==
    LET of == SelectSeq(insights, LAMBDA x : x.kind = kind)
    IN [i \in 1..Len(of) |-> of[i].col]

AllEqual(s) == \A i, j \in 1..Len(s) : s[i] = s[j]

Count(s, x) == Cardinality({i \in 1..Len(s) : s[i] = x})

---------------------------------------------------------------------------
(* C1: whenever POST /analyze produces chartData, the histogram counts sum *)
(* to the number of records whose value for the chartData column is        *)
(* present (not null, absent or "") and coerces to a number, which is the  *)
(* size of the list that column's statistics were computed from.           *)
C1_HistogramCountsNonMissing ==
    (ServerProfiled /\ ret.chartData # NoChart) =>
        LET col == ret.chartData.column IN
        /\ SumSeq(ret.chartData.data) = Cardinality(NumericAt(rows.items, col))
        /\ SumSeq(ret.chartData.data) = ret.statistics[col].mean.den

(* C2: a request whose rows are absent, no array or empty is answered 400   *)
(* "Invalid rows" and nothing else: no 500, no success, no statistics.      *)
C2_InvalidInputIs400 ==
    (call = "analyze" /\ (rows.kind # "array" \/ Len(rows.items) = 0)) =>
        /\ ret.status = 400
        /\ DOMAIN ret = {"status", "error"}

C2_Witness ==
    /\ call = "analyze"
    /\ rows = Array(<<>>)
    /\ ret.status = 400

(* C3: the server's insight list holds an outlier insight for a column     *)
(* if and only if the column is numeric and its outliers_iqr is non-empty;  *)
(* z-score outliers alone cause none.                                       *)
C3_OutlierInsightIffIqr ==
    ServerProfiled =>
        \A c \in DOMAIN ret.statistics :
            (\E i \in 1..Len(ret.insights) :
                ret.insights[i].kind = "outlier" /\ ret.insights[i].col = c)
            <=> (ret.statistics[c].isNumeric
                    /\ ret.statistics[c].outliers_iqr # <<>>)

(* C4: for the server profiler and for the client-side profiler, the       *)
(* missing-value insights are exactly the columns with missing > 0, each   *)
(* once, in the column order of the first record, numeric or not.          *)
C4_MissingInsightPerColumn ==
    (ServerProfiled \/ ClientProfiled) =>
        InsightCols(ret.insights, "missing")
            = SelectSeq(Keys(rows.items[1]),
                        LAMBDA c : ret.statistics[c].missing > 0)

(* C5: inferColumnTypes gives every column one type by the priority order  *)
(* over its non-missing values: numeric if all coerce to a number, else    *)
(* date if all parse as dates, else numeric if strictly more than 80%      *)
(* coerce to a number, else categorical (so a column with no value is      *)
(* numeric and one with exactly 80% numbers is categorical).               *)
C5_TypePriority ==
    ServerProfiled =>
        \A c \in DOMAIN ret.types :
            LET tot == Len(rows.items) - Cardinality(MissingAt(rows.items, c))
                num == Cardinality(NumericAt(rows.items, c))
                date == Cardinality(DateAt(rows.items, c))
            IN /\ num = tot => ret.types[c] = "numeric"
               /\ (num # tot /\ date = tot) => ret.types[c] = "date"
               /\ (num # tot /\ date # tot /\ 5 * num > 4 * tot)
                    => ret.types[c] = "numeric"
               /\ (num # tot /\ date # tot /\ 5 * num <= 4 * tot)
                    => ret.types[c] = "categorical"

\* a column of five values, four of them numbers, is categorical
C5_Witness ==
    /\ ServerProfiled
    /\ \E c \in DOMAIN ret.types :
        /\ Len(rows.items) - Cardinality(MissingAt(rows.items, c)) = 5
        /\ Cardinality(NumericAt(rows.items, c)) = 4
        /\ ret.types[c] = "categorical"

(* C6: for a column with n >= 1 numeric values computeStatistics takes q1,  *)
(* median and q3 at indices floor(n/4), floor(n/2), floor(3n/4) of the      *)
(* ascending values; the indices lie in 0..n-1, min <= q1 <= median <= q3   *)
(* <= max and iqr = q3 - q1 >= 0.                                           *)
C6_QuantileOrder ==
    ServerProfiled =>
        \A c \in DOMAIN ret.statistics :
            ret.statistics[c].isNumeric =>
                LET s == ret.statistics[c]
                    numeric == ColumnNumbers(rows.items, c)
                    n == Len(numeric)
                IN /\ n >= 1
                   /\ {n \div 4, n \div 2, (3 * n) \div 4} \subseteq 0..(n - 1)
                   /\ s.min = Kth(numeric, 0)
                   /\ s.q1 = Kth(numeric, n \div 4)
                   /\ s.median = Kth(numeric, n \div 2)
                   /\ s.q3 = Kth(numeric, (3 * n) \div 4)
                   /\ s.max = Kth(numeric, n - 1)
                   /\ s.min <= s.q1 /\ s.q1 <= s.median
                   /\ s.median <= s.q3 /\ s.q3 <= s.max
                   /\ s.iqr = s.q3 - s.q1
                   /\ s.iqr >= 0

\* a column given out of order whose quartiles and median all differ
C6_Witness ==
    /\ ServerProfiled
    /\ \E c \in DOMAIN ret.statistics :
        /\ ret.statistics[c].isNumeric
        /\ ret.statistics[c].q1 < ret.statistics[c].median
        /\ ret.statistics[c].median < ret.statistics[c].q3
        /\ Get(rows.items[1], c) = Num(5)

(* C7, as claimed: buildHistogram returns null for an empty or absent       *)
(* sequence; otherwise b labels and b counts that sum to the length of the  *)
(* sequence, with the values equal to max in bucket b-1 and the values      *)
(* equal to min in bucket 0.                                                *)
C7_HistogramAsClaimed ==
    call = "buildHistogram" =>
        IF numericValues.kind # "array" \/ numericValues.items = <<>>
        THEN ret = NoHistogram
        ELSE LET v == numericValues.items
                 b == buckets
             IN /\ Len(ret.labels) = b /\ Len(ret.counts) = b
                /\ \A i \in 1..b : ret.counts[i] >= 0
                /\ SumSeq(ret.counts) = Len(v)
                /\ ret.counts[b] >= Count(v, Kth(v, Len(v) - 1))
                /\ ret.counts[1] >= Count(v, Kth(v, 0))

(* C7, amended: the same, but the values equal to max are in bucket b-1     *)
(* only when max > min; when all values are equal they are all in bucket 0. *)
C7_Histogram ==
    call = "buildHistogram" =>
        IF numericValues.kind # "array" \/ numericValues.items = <<>>
        THEN ret = NoHistogram
        ELSE LET v == numericValues.items
                 b == buckets
                 min == Kth(v, 0)
                 max == Kth(v, Len(v) - 1)
             IN /\ Len(ret.labels) = b /\ Len(ret.counts) = b
                /\ \A i \in 1..b : ret.counts[i] >= 0
                /\ SumSeq(ret.counts) = Len(v)
                /\ max > min => ret.counts[b] >= Count(v, max)
                /\ ret.counts[1] >= Count(v, min)
                /\ max = min => ret.counts[1] = Len(v)

\* several values, several buckets, the largest value alone in the last bucket
C7_Witness ==
    /\ call = "buildHistogram"
    /\ numericValues.kind = "array"
    /\ Len(numericValues.items) >= 3
    /\ buckets >= 2
    /\ ~AllEqual(numericValues.items)
    /\ ret.counts[buckets] = 1

(* C8: for values that are all equal, computeStatistics yields iqr = 0 and  *)
(* outliers_z = [], and buildHistogram takes 1 for the zero range: the      *)
(* first bucket is one range/b wide and holds every value.                  *)
C8_ZeroVariance ==
    (numericValues.kind = "array" /\ numericValues.items # <<>>
        /\ AllEqual(numericValues.items)) =>
        /\ call = "computeStatistics" =>
            /\ ret["a"].iqr = 0
            /\ ret["a"].outliers_z = <<>>
        /\ call = "buildHistogram" =>
            /\ ret.counts = [i \in 1..buckets |->
                                IF i = 1 THEN Len(numericValues.items) ELSE 0]
            /\ ret.labels[1].start = numericValues.items[1] * buckets
            /\ buckets > 1 => ret.labels[1].end = ret.labels[1].start + 1

C8_Witness ==
    /\ call = "buildHistogram"
    /\ numericValues.kind = "array"
    /\ Len(numericValues.items) >= 2
    /\ AllEqual(numericValues.items)
    /\ buckets >= 2
    /\ ret.counts[1] = Len(numericValues.items)

(* C9: in every profile, count is the number of records, missing the        *)
(* number of records whose value for the column is null, absent or "",      *)
(* missing plus the number of non-missing values is count, 0 <= missing <=  *)
(* count and unique <= count - missing.                                     *)
C9_MissingPartition ==
    (ServerProfiled \/ ClientProfiled) =>
        \A c \in DOMAIN ret.statistics :
            LET s == ret.statistics[c]
                present == (1..Len(rows.items)) \ MissingAt(rows.items, c)
            IN /\ s.count = Len(rows.items)
               /\ s.missing = Cardinality(MissingAt(rows.items, c))
               /\ s.missing + Cardinality(present) = s.count
               /\ 0 <= s.missing /\ s.missing <= s.count
               /\ s.unique <= s.count - s.missing

\* a column holding null, "" and a value
C9_Witness ==
    /\ ServerProfiled
    /\ \E c \in DOMAIN ret.statistics :
        /\ ret.statistics[c].missing = 2
        /\ ret.statistics[c].count = 3
        /\ \E i \in 1..Len(rows.items) : Get(rows.items[i], c) = Str("")
        /\ \E i \in 1..Len(rows.items) : Get(rows.items[i], c) = Null

(* C10: every analysis a click starts eventually has its result rendered    *)
(* with the Analyze button enabled again.                                   *)
C10_AnalysisCompletes ==
    \A id \in 1..MaxClicks :
        (\E i \in 1..Len(handlers) : handlers[i].id = id)
            ~> (/\ lastResult # NoResult
                /\ lastResult.id = id
                /\ ~analyzeBtnDisabled)

=============================================================================
